---- MODULE Spec2Model ----
(***************************************************************************)
(* Model of push/args.py: parse_args and its argparse actions.             *)
(*                                                                         *)
(* One parse of a command line is a state machine: every step consumes one *)
(* option occurrence of sys.argv together with its arguments and runs the  *)
(* action registered for it on the namespace; the last step is the end of  *)
(* parser.parse_args (required-argument check) followed by the quiet       *)
(* post-processing and the return.  An error raised by a step ends the     *)
(* parse (ArgumentParser.error raises ArgumentError).                      *)
(*                                                                         *)
(* Encodings.                                                              *)
(*  - None is <<>> and a present value v is <<v>> (Python's None differs   *)
(*    from an empty list, and TLC cannot compare a string with a number).  *)
(*  - A raw -h token is a sequence of atoms; an atom is " ", "\t" or a     *)
(*    chunk of non-blank characters, so that `" " in s`, s.split(" ") and  *)
(*    s.strip() are computed on the token.  Text joins atoms to a string.  *)
(*  - A raw --sleeptime argument is a sequence of characters, converted by *)
(*    int.                                                                 *)
(*  - The interpreter is Python 2 (argparse of 2.7): str has no __iter__,  *)
(*    and a value that `is` the action's default does not register the     *)
(*    action for the mutually exclusive check.                             *)
(***************************************************************************)
EXTENDS Integers, Sequences, FiniteSets, TLC

VARIABLES all_hosts, aliases, namespace, argv, seen_actions,
          seen_non_default_actions, status, error

vars == <<all_hosts, aliases, namespace, argv, seen_actions,
          seen_non_default_actions, status, error>>

\* Longest command line explored, counted in elements of sys.argv[1:].
MaxArgv == 5

None == <<>>
Some(v) == <<v>>

(***************************************************************************)
(* String functions used by the actions                                    *)
(***************************************************************************)
Whitespace == {" ", "\t"}

\* " " in s
HasSpace(s) == \E i \in 1..Len(s) : s[i] = " "

\* s.split(" "): the pieces between single spaces, empty pieces included
RECURSIVE SplitFrom(_, _)
SplitFrom(s, cur) ==
    IF s = <<>> THEN <<cur>>
    ELSE IF Head(s) = " " THEN <<cur>> \o SplitFrom(Tail(s), <<>>)
    ELSE SplitFrom(Tail(s), Append(cur, Head(s)))

Split(s) == SplitFrom(s, <<>>)

\* x.strip(): leading and trailing whitespace removed
RECURSIVE LStrip(_)
LStrip(s) ==
    IF s # <<>> /\ Head(s) \in Whitespace THEN LStrip(Tail(s)) ELSE s

RECURSIVE RStrip(_)
RStrip(s) ==
    IF s # <<>> /\ s[Len(s)] \in Whitespace
    THEN RStrip(SubSeq(s, 1, Len(s) - 1)) ELSE s

Strip(s) == RStrip(LStrip(s))

\* the Python string a sequence of atoms stands for
RECURSIVE Text(_)
Text(s) == IF s = <<>> THEN "" ELSE Head(s) \o Text(Tail(s))

\* int(s) of a --sleeptime argument: None stands for ValueError
Digits == <<"0", "1", "2", "3", "4", "5", "6", "7", "8", "9">>

DigitValue(c) == (CHOOSE i \in 1..Len(Digits) : Digits[i] = c) - 1

IsDigit(c) == \E i \in 1..Len(Digits) : Digits[i] = c

RECURSIVE IntFrom(_, _)
IntFrom(s, acc) ==
    IF s = <<>> THEN acc
    ELSE IntFrom(Tail(s), 10 * acc + DigitValue(Head(s)))

int(s) ==
    IF s # <<>> /\ \A i \in 1..Len(s) : IsDigit(s[i])
    THEN Some(IntFrom(s, 0)) ELSE None

(***************************************************************************)
(* Inputs: the caller's host registry and alias map, and the raw arguments *)
(***************************************************************************)
Registry ==
    [all_hosts |-> {"web1", "web2"},
     aliases   |-> [apps |-> <<"web2", "web1">>,
                    none |-> <<>>,
                    web1 |-> <<"web2">>]]

Configurations ==
    { Registry,
      [all_hosts |-> {"web1", "web2"},
       aliases   |-> [apps  |-> <<"web2", "web1">>,
                      stale |-> <<"ghost", "web1">>]] }

HostTokens ==
    { <<"web1">>, <<"web2">>, <<"apps">>, <<"none">>, <<"stale">>,
      <<"web1", " ", "apps">>,
      <<"web2", " ", " ", "web1">>,
      <<"apps", " ", "web2", "\t">> }

RECURSIVE SeqsUpTo(_, _)
SeqsUpTo(S, n) ==
    IF n <= 0 THEN {<<>>}
    ELSE LET shorter == SeqsUpTo(S, n - 1)
         IN  shorter \cup {Append(q, x) : q \in shorter, x \in S}

\* the argument lists of one -h occurrence (nargs="+") of at most n tokens
HostValues(n) == SeqsUpTo(HostTokens, n) \ {<<>>}

\* the single -h occurrence of the command lines that exercise other options
OneHostValues == {<<<<"web1">>>>}

RECURSIVE RawLen(_)
RawLen(a) ==
    IF a = <<>> THEN 0 ELSE 1 + Len(Head(a).args) + RawLen(Tail(a))

Fits(raw) == RawLen(argv) + 1 + Len(raw) <= MaxArgv

(***************************************************************************)
(* Namespace and MutatingAction                                            *)
(***************************************************************************)
DefaultSleeptime == 5

EmptyDict == [k \in {} |-> ""]

\* the defaults argparse stores before consuming any argument
InitNamespace ==
    [hosts           |-> None,
     sleeptime       |-> Some(DefaultSleeptime),
     testing         |-> FALSE,
     quiet           |-> FALSE,
     notify_irc      |-> TRUE,
     build_static    |-> TRUE,
     auto_continue   |-> FALSE,
     start_at        |-> None,
     shuffle         |-> FALSE,
     fetches         |-> {},
     deploys         |-> {},
     revisions       |-> EmptyDict,
     deploy_commands |-> None]

\* `not o` for the three container types
Falsy(o, type_to_mutate) ==
    CASE type_to_mutate = "list" -> o = None \/ o = Some(<<>>)
      [] type_to_mutate = "set"  -> o = {}
      [] type_to_mutate = "dict" -> DOMAIN o = {}

New(type_to_mutate) ==
    CASE type_to_mutate = "list" -> Some(<<>>)
      [] type_to_mutate = "set"  -> {}
      [] type_to_mutate = "dict" -> EmptyDict

\* the namespace after get_attr_to_mutate; the container is then ns[dest]
get_attr_to_mutate(ns, dest, type_to_mutate) ==
    IF Falsy(ns[dest], type_to_mutate)
    THEN [ns EXCEPT ![dest] = New(type_to_mutate)]
    ELSE ns

Ok(ns) == [namespace |-> ns, error |-> None]

Raise(ns, kind, what) ==
    [namespace |-> ns, error |-> Some([kind |-> kind, what |-> what])]

(***************************************************************************)
(* AppendHostOrAlias                                                       *)
(***************************************************************************)
\* deque.extend(x.strip() for x in host_or_alias.split(" "))
Extend(queue, host_or_alias) ==
    LET parts == Split(host_or_alias)
    IN  queue \o [i \in 1..Len(parts) |-> Strip(parts[i])]

\* Resolve dropping a host that is already on the list
RECURSIVE Resolve_dedup(_, _, _, _)
Resolve_dedup(queue, host_list, hosts, als) ==
    IF queue = <<>> THEN [host_list |-> host_list, unknown |-> None]
    ELSE LET host_or_alias == Head(queue)
             rest          == Tail(queue)
             name          == Text(host_or_alias)
             seen(h)       == \E i \in 1..Len(host_list) : host_list[i] = h
         IN  IF HasSpace(host_or_alias)
             THEN Resolve_dedup(Extend(rest, host_or_alias), host_list, hosts, als)
             ELSE IF name \in hosts
             THEN Resolve_dedup(rest, IF seen(name) THEN host_list
                                      ELSE Append(host_list, name), hosts, als)
             ELSE IF name \in DOMAIN als
             THEN Resolve_dedup(rest, host_list \o als[name], hosts, als)
             ELSE [host_list |-> host_list, unknown |-> Some(name)]

\* Resolve appending a name that is neither a host nor an alias
RECURSIVE Resolve_unchecked(_, _, _, _)
Resolve_unchecked(queue, host_list, hosts, als) ==
    IF queue = <<>> THEN [host_list |-> host_list, unknown |-> None]
    ELSE LET host_or_alias == Head(queue)
             rest          == Tail(queue)
             name          == Text(host_or_alias)
         IN  IF HasSpace(host_or_alias)
             THEN Resolve_unchecked(Extend(rest, host_or_alias), host_list, hosts, als)
             ELSE IF name \in DOMAIN als /\ name \notin hosts
             THEN Resolve_unchecked(rest, host_list \o als[name], hosts, als)
             ELSE Resolve_unchecked(rest, Append(host_list, name), hosts, als)

\* the while loop: the host list built, and the token that raised, if any
RECURSIVE Resolve(_, _, _, _)
Resolve(queue, host_list, hosts, als) ==
    IF queue = <<>> THEN [host_list |-> host_list, unknown |-> None]
    ELSE LET host_or_alias == Head(queue)
             rest          == Tail(queue)
             name          == Text(host_or_alias)
         IN  IF HasSpace(host_or_alias)
             THEN Resolve(Extend(rest, host_or_alias), host_list, hosts, als)
             ELSE IF name \in hosts
             THEN Resolve(rest, Append(host_list, name), hosts, als)
             ELSE IF name \in DOMAIN als
             THEN Resolve(rest, host_list \o als[name], hosts, als)
             ELSE [host_list |-> host_list, unknown |-> Some(name)]

AppendHostOrAlias(ns, values, hosts, als) ==
    LET ns1 == get_attr_to_mutate(ns, "hosts", "list")
        r   == Resolve(values, ns1.hosts[1], hosts, als)
        ns2 == [ns1 EXCEPT !.hosts = Some(r.host_list)]
    IN  IF r.unknown = None THEN Ok(ns2)
        ELSE Raise(ns2, "unknown host or alias", r.unknown[1])

(***************************************************************************)
(* The parser: one step per option occurrence                              *)
(***************************************************************************)
\* parse_args(all_hosts, aliases) called with one of the configurations
Start(configurations) ==
    /\ \E c \in configurations :
          /\ all_hosts = c.all_hosts
          /\ aliases = c.aliases
    /\ namespace = InitNamespace
    /\ argv = <<>>
    /\ seen_actions = {}
    /\ seen_non_default_actions = {}
    /\ status = "parsing"
    /\ error = None

\* Conflicts without the mutually exclusive group
Conflicts_none(opt) == {}

\* the other member of the mutually exclusive group of an option
Conflicts(opt) ==
    CASE opt = "--startat" -> {"--shuffle"}
      [] opt = "--shuffle" -> {"--startat"}
      [] OTHER             -> {}

\* argparse's take_action for one occurrence of opt with raw arguments raw:
\* bad is the error of _get_values (type or choices), nondefault says the
\* values are not the action's default, r is the outcome of the action call
take_action(opt, raw, bad, nondefault, r) ==
    LET conflicting == IF nondefault
                       THEN Conflicts(opt) \cap seen_non_default_actions
                       ELSE {}
        res == IF bad # None THEN [namespace |-> namespace, error |-> bad]
               ELSE IF conflicting # {}
               THEN Raise(namespace, "not allowed with argument",
                          CHOOSE c \in conflicting : TRUE)
               ELSE r
    IN  /\ status = "parsing"
        /\ Fits(raw)
        /\ argv' = Append(argv, [opt |-> opt, args |-> raw])
        /\ seen_actions' = seen_actions \cup {opt}
        /\ seen_non_default_actions' =
              IF bad = None /\ nondefault
              THEN seen_non_default_actions \cup {opt}
              ELSE seen_non_default_actions
        /\ namespace' = res.namespace
        /\ error' = res.error
        /\ status' = IF res.error = None THEN "parsing" ELSE "error"
        /\ UNCHANGED <<all_hosts, aliases>>

Parse_h(values) ==
    take_action("-h", values, None, TRUE,
                AppendHostOrAlias(namespace, values, all_hosts, aliases))

(***************************************************************************)
(* --sleeptime: nargs="?", type=int, default=5, no const                   *)
(***************************************************************************)
SleeptimeArgs == {None, Some(<<"0">>), Some(<<"1", "2">>), Some(<<"5">>),
                  Some(<<"a", "b", "c">>)}

\* _get_values: the const (None) without an argument, int(arg) with one
SleeptimeValue(arg) == IF arg = None THEN None ELSE int(arg[1])

Parse_sleeptime(arg) ==
    LET value == SleeptimeValue(arg)
        bad   == IF arg # None /\ value = None
                 THEN Some([kind |-> "invalid int value", what |-> Text(arg[1])])
                 ELSE None
    IN  take_action("--sleeptime", arg, bad, value # Some(DefaultSleeptime),
                    Ok([namespace EXCEPT !.sleeptime = value]))

(***************************************************************************)
(* store_true / store_false flags and --help                               *)
(***************************************************************************)
StoreConst(ns, dest, const) == Ok([ns EXCEPT ![dest] = const])

Parse_t == take_action("-t", <<>>, None, TRUE,
                       StoreConst(namespace, "testing", TRUE))

Parse_q == take_action("-q", <<>>, None, TRUE,
                       StoreConst(namespace, "quiet", TRUE))

Parse_no_irc == take_action("--no-irc", <<>>, None, TRUE,
                            StoreConst(namespace, "notify_irc", FALSE))

Parse_no_static == take_action("--no-static", <<>>, None, TRUE,
                               StoreConst(namespace, "build_static", FALSE))

Parse_no_input == take_action("--no-input", <<>>, None, TRUE,
                              StoreConst(namespace, "auto_continue", TRUE))

\* action="help": print the usage and exit the process
Parse_help ==
    /\ status = "parsing"
    /\ Fits(<<>>)
    /\ argv' = Append(argv, [opt |-> "--help", args |-> <<>>])
    /\ seen_actions' = seen_actions \cup {"--help"}
    /\ seen_non_default_actions' = seen_non_default_actions \cup {"--help"}
    /\ status' = "exit"
    /\ UNCHANGED <<all_hosts, aliases, namespace, error>>

(***************************************************************************)
(* --startat / --shuffle                                                   *)
(***************************************************************************)
StartatArgs == {None, Some("web1"), Some("web2"), Some("stale")}

\* value is None for a bare --startat (nargs="?" without const)
StoreIfHost(ns, value, hosts) ==
    IF value = None THEN Raise(ns, "unknown host", "None")
    ELSE IF value[1] \notin hosts THEN Raise(ns, "unknown host", value[1])
    ELSE Ok([ns EXCEPT !.start_at = value])

Parse_startat(arg) ==
    take_action("--startat", arg, None, arg # None,
                StoreIfHost(namespace, arg, all_hosts))

Parse_shuffle == take_action("--shuffle", <<>>, None, TRUE,
                             StoreConst(namespace, "shuffle", TRUE))

(***************************************************************************)
(* SetAddConst and DictAddConstKey                                         *)
(***************************************************************************)
Str(x) == [type |-> "str", value |-> x]
List(x) == [type |-> "list", value |-> x]

SetFlags ==
    { [opt |-> "-pc",  dest |-> "fetches", const |-> List(<<"public", "private">>)],
      [opt |-> "-ppu", dest |-> "fetches", const |-> Str("public")],
      [opt |-> "-ppr", dest |-> "fetches", const |-> Str("private")],
      [opt |-> "-pla", dest |-> "fetches", const |-> Str("i18n")],
      [opt |-> "-dc",  dest |-> "deploys", const |-> List(<<"public", "private">>)],
      [opt |-> "-dpu", dest |-> "deploys", const |-> Str("public")],
      [opt |-> "-dpr", dest |-> "deploys", const |-> Str("private")],
      [opt |-> "-dla", dest |-> "deploys", const |-> Str("i18n")] }

\* hasattr(const, "__iter__"): true of a list, false of a str
HasIter(const) == const.type = "list"

\* SetAddConst replacing the set instead of adding to it
SetAddConst_assign(ns, dest, const) ==
    Ok([ns EXCEPT ![dest] =
           IF HasIter(const)
           THEN {const.value[i] : i \in 1..Len(const.value)}
           ELSE {const.value}])

SetAddConst(ns, dest, const) ==
    LET ns1 == get_attr_to_mutate(ns, dest, "set")
        xs  == IF HasIter(const)
               THEN {const.value[i] : i \in 1..Len(const.value)}
               ELSE {const.value}
    IN  Ok([ns1 EXCEPT ![dest] = @ \cup xs])

Parse_SetAddConst(f) ==
    take_action(f.opt, <<>>, None, TRUE,
                SetAddConst(namespace, f.dest, f.const))

DictFlags ==
    { [opt |-> "-publicrev",  const |-> "public"],
      [opt |-> "-privaterev", const |-> "private"],
      [opt |-> "-langrev",    const |-> "i18n"] }

Refs == {"v1", "v2"}

DictAddConstKey(ns, const, values) ==
    LET ns1   == get_attr_to_mutate(ns, "revisions", "dict")
        d     == ns1.revisions
        value == values[1]
    IN  Ok([ns1 EXCEPT !.revisions =
               [k \in DOMAIN d \cup {const} |->
                   IF k = const THEN value ELSE d[k]]])

Parse_DictAddConstKey(f, ref) ==
    take_action(f.opt, <<ref>>, None, TRUE,
                DictAddConstKey(namespace, f.const, <<ref>>))

(***************************************************************************)
(* DeployCommand (-r) and KillCommand (-k)                                 *)
(***************************************************************************)
RestartArgs == {"all", "apps", "myscript"}

KillArgs == {"all", "apps", "web"}

KillChoices == {"all", "apps"}

\* DeployCommand prefixing every value
DeployCommand_prefixed(ns, values) ==
    LET ns1 == get_attr_to_mutate(ns, "deploy_commands", "list")
    IN  Ok([ns1 EXCEPT !.deploy_commands =
               Some(Append(@[1], "restart-" \o values[1]))])

DeployCommand(ns, values) ==
    LET value  == values[1]
        prefix == IF value \in {"all", "apps"} THEN "restart-" ELSE ""
        ns1    == get_attr_to_mutate(ns, "deploy_commands", "list")
    IN  Ok([ns1 EXCEPT !.deploy_commands =
               Some(Append(@[1], prefix \o value))])

KillCommand(ns, values) ==
    LET ns1 == get_attr_to_mutate(ns, "deploy_commands", "list")
    IN  Ok([ns1 EXCEPT !.deploy_commands =
               Some(Append(@[1], "kill-" \o values[1]))])

Parse_r(value) ==
    take_action("-r", <<value>>, None, TRUE,
                DeployCommand(namespace, <<value>>))

\* _get_values checks choices before the action is called
Parse_k(value) ==
    LET bad == IF value \notin KillChoices
               THEN Some([kind |-> "invalid choice", what |-> value])
               ELSE None
    IN  take_action("-k", <<value>>, bad, TRUE,
                    KillCommand(namespace, <<value>>))

\* PostProcess without the quiet rule
PostProcess_skipped(ns) == ns

\* if args.quiet: args.auto_continue = True
PostProcess(ns) ==
    IF ns.quiet THEN [ns EXCEPT !.auto_continue = TRUE] ELSE ns

\* end of parser.parse_args (required arguments), then lines 222-225
Return ==
    /\ status = "parsing"
    /\ IF "-h" \notin seen_actions
       THEN /\ status' = "error"
            /\ error' = Some([kind |-> "argument is required", what |-> "-h"])
            /\ namespace' = namespace
       ELSE /\ status' = "returned"
            /\ error' = None
            /\ namespace' = PostProcess(namespace)
    /\ UNCHANGED <<all_hosts, aliases, argv, seen_actions,
                   seen_non_default_actions>>

(***************************************************************************)
(* Command lines                                                           *)
(***************************************************************************)
h_any == \E values \in HostValues(MaxArgv - RawLen(argv) - 1) : Parse_h(values)

h_one == \E values \in OneHostValues : Parse_h(values)

sleeptime == \E arg \in SleeptimeArgs : Parse_sleeptime(arg)

startat == \E arg \in StartatArgs : Parse_startat(arg)

set_flag == \E f \in SetFlags : Parse_SetAddConst(f)

dict_flag == \E f \in DictFlags, ref \in Refs : Parse_DictAddConstKey(f, ref)

restart == \E value \in RestartArgs : Parse_r(value)

kill == \E value \in KillArgs : Parse_k(value)

Init == Start(Configurations)

InitRegistry == Start({Registry})

\* command lines of -h occurrences
NextHosts == h_any \/ Return

SpecHosts == Init /\ [][NextHosts]_vars

\* command lines of fetch and deploy options
NextRepos == h_one \/ set_flag \/ Return

SpecRepos == InitRegistry /\ [][NextRepos]_vars

\* command lines of -r, -k and the revision options
NextCommands == h_one \/ restart \/ kill \/ dict_flag \/ Return

SpecCommands == InitRegistry /\ [][NextCommands]_vars

\* command lines of the boolean flags
NextFlags ==
    \/ h_one \/ Parse_t \/ Parse_q \/ Parse_no_irc \/ Parse_no_static
    \/ Parse_no_input \/ Parse_help \/ Return

SpecFlags == InitRegistry /\ [][NextFlags]_vars

\* command lines of --startat, --shuffle and --sleeptime
NextStart == h_one \/ startat \/ Parse_shuffle \/ sleeptime \/ Return

SpecStart == Init /\ [][NextStart]_vars

\* every command line
Next ==
    \/ h_any \/ sleeptime \/ Parse_t \/ Parse_q \/ Parse_no_irc
    \/ Parse_no_static \/ Parse_no_input \/ startat \/ Parse_shuffle
    \/ Parse_help \/ set_flag \/ dict_flag \/ restart \/ kill \/ Return

Spec == Init /\ [][Next]_vars

(***************************************************************************)
(* Properties                                                              *)
(***************************************************************************)
Returned == status = "returned"

Failed(kind) == status = "error" /\ error # None /\ error[1].kind = kind

\* the occurrences of the options of opts on the consumed command line
RECURSIVE Occurrences(_, _)
Occurrences(a, opts) ==
    IF a = <<>> THEN <<>>
    ELSE (IF Head(a).opt \in opts THEN <<Head(a)>> ELSE <<>>)
         \o Occurrences(Tail(a), opts)

\* the -h tokens of the consumed command line, in the order given
RECURSIVE Tokens(_)
Tokens(a) ==
    IF a = <<>> THEN <<>>
    ELSE (IF Head(a).opt = "-h" THEN Head(a).args ELSE <<>>) \o Tokens(Tail(a))

KnownName(token) ==
    /\ ~HasSpace(token)
    /\ Text(token) \in all_hosts \cup DOMAIN aliases

\* a host stands for itself, an alias for the hosts of its list
Expansion(token) ==
    IF Text(token) \in all_hosts THEN <<Text(token)>> ELSE aliases[Text(token)]

RECURSIVE Expanded(_)
Expanded(tokens) ==
    IF tokens = <<>> THEN <<>>
    ELSE Expansion(Head(tokens)) \o Expanded(Tail(tokens))

\* C1: when every -h token is free of spaces and is a known host or a known
\* alias, the returned hosts are the expansions of the tokens of all -h
\* occurrences concatenated in the order given, duplicates kept; a name that
\* is both a host and an alias counts as the host.
C1_HostsAreExpansions ==
    (Returned /\ \A i \in 1..Len(Tokens(argv)) : KnownName(Tokens(argv)[i]))
        => namespace.hosts = Some(Expanded(Tokens(argv)))

C1_Witness ==
    /\ Returned
    /\ Len(argv) >= 2
    /\ \A i \in 1..Len(Tokens(argv)) : KnownName(Tokens(argv)[i])
    /\ "web1" \in DOMAIN aliases
    /\ \E i, j \in 1..Len(Tokens(argv)) :
          /\ i < j
          /\ Tokens(argv)[i] = <<"apps">>
          /\ Tokens(argv)[j] = <<"web1">>
    /\ namespace.hosts # None
    /\ \E i, j \in 1..Len(namespace.hosts[1]) :
          i # j /\ namespace.hosts[1][i] = namespace.hosts[1][j]

\* the arguments of one -h occurrence with every token that contains a space
\* replaced, at its position, by its space-separated parts
RECURSIVE SplitInPlace(_)
SplitInPlace(values) ==
    IF values = <<>> THEN <<>>
    ELSE (IF HasSpace(Head(values))
          THEN Extend(<<>>, Head(values))
          ELSE <<Head(values)>>) \o SplitInPlace(Tail(values))

\* the parse of the -h occurrences of a when the parts are given separately
RECURSIVE ParseSplit(_, _)
ParseSplit(a, ns) ==
    IF a = <<>> THEN Ok(ns)
    ELSE LET r == AppendHostOrAlias(ns, SplitInPlace(Head(a).args),
                                    all_hosts, aliases)
         IN  IF r.error # None THEN r ELSE ParseSplit(Tail(a), r.namespace)

\* C2: a -h token with internal spaces is handled as if its parts had been
\* given as separate tokens at the same position: the hosts, or the error,
\* are those of the command line with the token replaced by its parts.
C2_SplitTokenInPlace ==
    LET separate == ParseSplit(Occurrences(argv, {"-h"}), InitNamespace)
    IN  /\ error = separate.error
        /\ error = None => namespace.hosts = separate.namespace.hosts

\* C3: the hosts of a returned request are not empty.
C3_HostsNonEmpty ==
    Returned => (namespace.hosts # None /\ namespace.hosts[1] # <<>>)

AllKnown(host_list) == \A i \in 1..Len(host_list) : host_list[i] \in all_hosts

\* C4 as stated: every entry of the hosts of a returned request is a known
\* host, whatever the alias map.
C4_HostsKnownAnyAliases ==
    Returned => (namespace.hosts # None /\ AllKnown(namespace.hosts[1]))

WellFormedAliases == \A a \in DOMAIN aliases : AllKnown(aliases[a])

\* C4 amended: when every list of the alias map holds known hosts only,
\* every entry of the hosts of a returned request is a known host.
C4_HostsKnown ==
    (Returned /\ WellFormedAliases)
        => (namespace.hosts # None /\ AllKnown(namespace.hosts[1]))

C4_Witness ==
    /\ Returned
    /\ WellFormedAliases
    /\ \E i \in 1..Len(Tokens(argv)) : Tokens(argv)[i] = <<"apps">>
    /\ Len(namespace.hosts[1]) >= 3

\* the repositories a fetch or deploy option names
Repositories(opt) ==
    CASE opt \in {"-pc", "-dc"}   -> {"public", "private"}
      [] opt \in {"-ppu", "-dpu"} -> {"public"}
      [] opt \in {"-ppr", "-dpr"} -> {"private"}
      [] opt \in {"-pla", "-dla"} -> {"i18n"}

FetchOptions == {"-pc", "-ppu", "-ppr", "-pla"}

DeployOptions == {"-dc", "-dpu", "-dpr", "-dla"}

Named(opts) == UNION {Repositories(opt) : opt \in opts \cap seen_actions}

Command(occurrence) ==
    LET X == occurrence.args[1]
    IN  IF occurrence.opt = "-k" THEN "kill-" \o X
        ELSE IF X = "all" \/ X = "apps" THEN "restart-" \o X
        ELSE X

Accepted(occurrence) ==
    occurrence.opt = "-r" \/ occurrence.args[1] \in {"all", "apps"}

RECURSIVE Commands(_)
Commands(a) ==
    IF a = <<>> THEN <<>>
    ELSE (IF Accepted(Head(a)) THEN <<Command(Head(a))>> ELSE <<>>)
         \o Commands(Tail(a))

\* C6: deployCommands holds one entry per -r and -k occurrence, in the order
\* of the occurrences: restart-X for -r X with X all or apps, X for any other
\* -r X, kill-X for -k X; a -k with another argument fails the parse with
\* nothing appended for it.
C6_DeployCommandsInOrder ==
    LET given == Occurrences(argv, {"-r", "-k"})
    IN  /\ namespace.deploy_commands =
              (IF Commands(given) = <<>> THEN None ELSE Some(Commands(given)))
        /\ \A i \in 1..Len(given) :
              ~Accepted(given[i]) => (i = Len(given) /\ Failed("invalid choice"))

C6_Witness ==
    /\ status = "parsing"
    /\ Len(Occurrences(argv, {"-r", "-k"})) = 2
    /\ namespace.deploy_commands \in
          {Some(<<"myscript", "kill-all">>), Some(<<"kill-apps", "restart-all">>)}

BothSupplied == {"--startat", "--shuffle"} \subseteq seen_actions

StartatKnown ==
    \A i \in 1..Len(argv) :
        argv[i].opt = "--startat" =>
            (argv[i].args # <<>> /\ argv[i].args[1] \in all_hosts)

C8_QuietImpliesAutoContinue ==
    Returned =>
        /\ namespace.quiet = ("-q" \in seen_actions)
        /\ namespace.quiet => namespace.auto_continue
        /\ "-q" \notin seen_actions =>
              (namespace.auto_continue = ("--no-input" \in seen_actions))

C8_Witness ==
    /\ Returned
    /\ "-q" \in seen_actions
    /\ "--no-input" \notin seen_actions
    /\ namespace.auto_continue

Last == argv[Len(argv)]

\* C9: --startat with a known host stores it, with an unknown host fails with
\* the unknown host error, and without an argument succeeds and leaves
\* startAt absent; startAt in a returned request is absent or a known host.
C9_StartAtOptional ==
    /\ Returned =>
          (namespace.start_at = None \/ namespace.start_at[1] \in all_hosts)
    /\ (argv # <<>> /\ Last.opt = "--startat" /\ "--shuffle" \notin seen_actions)
          => IF Last.args = <<>>
             THEN status = "parsing"
             ELSE IF Last.args[1] \in all_hosts
             THEN status = "parsing" /\ namespace.start_at = Last.args
             ELSE Failed("unknown host")

SleeptimeGiven == Occurrences(argv, {"--sleeptime"})

\* C10: sleepSeconds of a returned request is an integer: 5 without
\* --sleeptime, N after --sleeptime N, and still an integer after a
\* --sleeptime without a value.
C10_SleeptimeIsInteger ==
    Returned =>
        /\ namespace.sleeptime # None
        /\ namespace.sleeptime[1] \in Int
        /\ SleeptimeGiven = <<>> => namespace.sleeptime = Some(DefaultSleeptime)
        /\ (SleeptimeGiven # <<>>
               /\ SleeptimeGiven[Len(SleeptimeGiven)].args # <<>>)
              => namespace.sleeptime =
                    int(SleeptimeGiven[Len(SleeptimeGiven)].args[1])

====
